---- MODULE Spec2Model ----
(***************************************************************************)
(* Model of the telemetry collectors of autopulse-vehicle-diagnostic:      *)
(*   - the rule engine ProfessionalCloudCollector._auto_label_health,      *)
(*   - the cloud collector's worker thread and stop_collection,            *)
(*   - the local collector's loop, store_batch_data and stop,              *)
(*   - SupabaseSync._upload_sensor_batch,                                  *)
(*   - connect_obd and connect_to_vehicle,                                 *)
(*   - MLHealthPredictor: load_model, engineer_features and predict,       *)
(*   - the vehicle signature and the find-or-create of the profile,        *)
(*   - session starts of one vehicle with and without a VIN,               *)
(*   - read_obd_data with its derived features, the quality scores and     *)
(*     the sleep that ends a poll cycle.                                   *)
(* Each part has its own specification over the shared variables; the     *)
(* variables of the other parts stay at their initial values.              *)
(***************************************************************************)
EXTENDS Integers, Sequences, FiniteSets, TLC

VARIABLES
    \* ---- rule engine (SpecRule) ----
    data,               \* the reading: a dict, a function from present keys to numbers
    label,              \* <<health_status, engine_stress_score>>, or <<>> before the call
    \* ---- cloud collector (Spec) ----
    running,            \* self.running (Event)
    connection,         \* self.connection: "none", "open" or "closed"
    current_vehicle_id, \* self.current_vehicle_id, 0 for None
    session_id,         \* self.session_id
    data_buffer,        \* self.data_buffer, deque(maxlen=100)
    session_stats,      \* self.session_stats
    consecutive_errors, \* local of data_collection_loop
    wpc,                \* position of the collection thread
    w_batch,            \* batch_data of the worker's upload_batch_to_cloud call
    w_site,             \* call site of the worker's upload: "loop" or "final"
    spc,                \* position of the thread running stop_collection
    s_batch,            \* batch_data of stop_collection's upload_batch_to_cloud call
    sensor_table,       \* rows of the sensor_data table, in insertion order
    hist,               \* history of the run, read by the properties only
    \* ---- local collector, ProfessionalVehicleCollector (SpecVehicle) ----
    stop_event,         \* self.stop_event (Event)
    is_running,         \* self.is_running
    obd_connection,     \* self.obd_connection: "open" or "closed"
    data_batch,         \* self.data_batch, deque()
    v_stats,            \* successful_readings and stored_records of self.session_stats
    v_consecutive_errors, \* consecutive_errors of professional_collection_loop
    vpc,                \* position of the main thread in run_professional_daemon_mode
    v_hist,             \* history of the run, read by the properties only
    \* ---- SupabaseSync._upload_sensor_batch (SpecSync) ----
    sy_batch,           \* the argument batch: records with an id and a poison mark
    sy_pos,             \* 0 in the batch insert, i at the i-th single insert, Len+1 at return
    sy_rows,            \* ids of the rows of the remote sensor_data table
    sy_hist,            \* history of the call, read by the properties only
    \* ---- connect_obd / connect_to_vehicle (SpecConnect) ----
    cn_impl,            \* the routine called: "connect_obd" or "connect_to_vehicle"
    cn_exists,          \* the device paths for which os.path.exists is true
    cn_status,          \* "idle", "running", or the value returned: "true" / "false"
    cn_attempt,         \* attempt of the outer loop, 0 before it is entered
    cn_idx,             \* index of the next candidate of the inner loop
    cn_log,             \* the handshakes made: attempt, candidate index, outcome
    cn_sleeps,          \* number of time.sleep calls made
    \* ---- the rule engine applied to a second reading (SpecPair) ----
    other,              \* the second reading
    other_label,        \* its <<health_status, engine_stress_score>>, or <<>>
    \* ---- MLHealthPredictor (SpecPredict) ----
    pr_files,           \* the files of model_dir that exist and load
    pr_sensor,          \* sensor_data: the keys that hold a number
    pr_null,            \* sensor_data: the keys that hold None
    pr_is_loaded,       \* self.is_loaded
    pr_pc,              \* "init" in __init__ before load_model, "ready", "done"
    pr_features,        \* outcome of a call of engineer_features
    pr_result,          \* outcome of predict
    \* ---- vehicle identity: signature and find-or-create (SpecIdentity) ----
    id_impl,            \* the collector: "cloud" or "vehicle"
    id_commands,        \* self.supported_commands, the same set at every connection
    id_protocol,        \* protocol_name() of the connection, "" when it has none
    id_signatures,      \* the signature generated at each connection
    id_vehicle_ids,     \* the vehicle id resolved at each connection
    id_profiles,        \* car_identifier of the stored profiles; the id is the index
    \* ---- sessions of one vehicle with and without a VIN (SpecSessions) ----
    ss_log,             \* per session: VIN read, signature, vehicle id, profile counters
    ss_profiles,        \* the stored profiles; the id is the index
    \* ---- read_obd_data of the cloud collector, call after call (SpecRead) ----
    rd_supported,       \* the varying commands that are in self.supported_commands
    rd_time,            \* time.time(), in seconds
    rd_prev_temp,       \* self.prev_temp
    rd_prev_temp_time,  \* self.prev_temp_time
    rd_reading,         \* the dict returned by the last call, with the responses it got
    rd_count,           \* number of calls made
    rd_hist,            \* history of the calls, read by the properties only
    \* ---- the quality score of two readings (SpecQuality) ----
    q_impl,             \* the collector: "cloud" or "vehicle"
    q_duration,         \* read_duration of both readings, in 0.1 s
    q_first,            \* outcome of each varying parameter in the first reading
    q_second,           \* outcome of each varying parameter in the second reading
    q_scores,           \* <<score of the first, score of the second>>, or <<>>
    \* ---- the pacing of the poll loop (SpecPace) ----
    pc_impl,            \* the collector: "cloud" or "vehicle"
    pc_errors,          \* consecutive_errors of the loop
    pc_log              \* per cycle: its duration, its outcome and the sleep that followed

ruleVars == <<data, label>>
cloudVars == <<running, connection, current_vehicle_id, session_id, data_buffer,
               session_stats, consecutive_errors, wpc, w_batch, w_site, spc, s_batch,
               sensor_table, hist>>
vehVars == <<stop_event, is_running, obd_connection, data_batch, v_stats,
             v_consecutive_errors, vpc, v_hist>>
syncVars == <<sy_batch, sy_pos, sy_rows, sy_hist>>
connVars == <<cn_impl, cn_exists, cn_status, cn_attempt, cn_idx, cn_log, cn_sleeps>>
pairVars == <<other, other_label>>
predVars == <<pr_files, pr_sensor, pr_null, pr_is_loaded, pr_pc, pr_features, pr_result>>
idVars == <<id_impl, id_commands, id_protocol, id_signatures, id_vehicle_ids, id_profiles>>
sessVars == <<ss_log, ss_profiles>>
readVars == <<rd_supported, rd_time, rd_prev_temp, rd_prev_temp_time, rd_reading, rd_count,
              rd_hist>>
qualVars == <<q_impl, q_duration, q_first, q_second, q_scores>>
paceVars == <<pc_impl, pc_errors, pc_log>>
lateVars == <<sessVars, readVars, qualVars, paceVars>>
moreVars == <<connVars, pairVars, predVars, idVars, lateVars>>
vars == <<ruleVars, cloudVars, vehVars, syncVars, moreVars>>

Abs(x) == IF x < 0 THEN -x ELSE x

(***************************************************************************)
(* Readings.  A reading is a Python dict: a function whose domain is the   *)
(* set of keys present.  Units: engine_load in 0.1 %, control_module_      *)
(* voltage in 0.1 V, o2_b1s1 in 0.01 V, mil_status 0/1, the rest in the    *)
(* unit of the source.                                                     *)
(***************************************************************************)
Keys == {"coolant_temp", "control_module_voltage", "dtc_count", "catalyst_temp_b1s1",
         "engine_load", "rpm", "short_fuel_trim_1", "long_fuel_trim_1", "o2_b1s1",
         "mil_status", "distance_w_mil"}

\* dict.get(key, default)
Get(d, key, default) == IF key \in DOMAIN d THEN d[key] ELSE default

\* abs(o2_voltage - 0.45) > 0.3 in binary floating point: 0.15 - 0.45 rounds to
\* -0.30000000000000004, every other multiple of 0.01 V compares as in exact arithmetic.
O2Deviates(o2) == Abs(o2 - 45) > 30 \/ o2 = 15

\* the short-circuit without the engine_load condition
HardCriticalMutant(d) ==
    \/ Get(d, "coolant_temp", 0) > 110
    \/ Get(d, "control_module_voltage", 140) < 110
    \/ Get(d, "dtc_count", 0) > 10
    \/ Get(d, "catalyst_temp_b1s1", 0) > 900

\* the condition of the CRITICAL short-circuit
HardCritical(d) ==
    \/ Get(d, "coolant_temp", 0) > 110
    \/ Get(d, "control_module_voltage", 140) < 110
    \/ Get(d, "dtc_count", 0) > 10
    \/ Get(d, "catalyst_temp_b1s1", 0) > 900
    \/ Get(d, "engine_load", 0) > 950

LoadPoints(d) ==
    LET engine_load == Get(d, "engine_load", 0)
    IN  IF engine_load > 850 THEN 3
        ELSE IF engine_load > 700 THEN 2
        ELSE IF engine_load > 500 THEN 1 ELSE 0

RpmPoints(d) ==
    LET engine_load == Get(d, "engine_load", 0)
        rpm == Get(d, "rpm", 0)
    IN  IF rpm > 3500 /\ engine_load < 300 THEN 2
        ELSE IF rpm > 4500 THEN 2 ELSE 0

\* the temperature factor without its lowest step
TempPointsMutant(d) ==
    LET coolant_temp == Get(d, "coolant_temp", 0)
    IN  IF coolant_temp > 105 THEN 3
        ELSE IF coolant_temp > 100 THEN 2 ELSE 0

TempPoints(d) ==
    LET coolant_temp == Get(d, "coolant_temp", 0)
    IN  IF coolant_temp > 105 THEN 3
        ELSE IF coolant_temp > 100 THEN 2
        ELSE IF coolant_temp > 95 THEN 1 ELSE 0

VoltagePoints(d) ==
    LET voltage == Get(d, "control_module_voltage", 140)
    IN  IF voltage < 120 THEN 2
        ELSE IF voltage < 130 THEN 1
        ELSE IF voltage > 150 THEN 2 ELSE 0

TrimPoints(d) ==
    LET short_trim == Abs(Get(d, "short_fuel_trim_1", 0))
        long_trim == Abs(Get(d, "long_fuel_trim_1", 0))
    IN  IF short_trim > 20 \/ long_trim > 15 THEN 2
        ELSE IF short_trim > 10 \/ long_trim > 8 THEN 1 ELSE 0

O2Points(d) == IF O2Deviates(Get(d, "o2_b1s1", 45)) THEN 1 ELSE 0

DtcPoints(d) ==
    LET dtc_count == Get(d, "dtc_count", 0)
    IN  IF dtc_count >= 3 THEN 2
        ELSE IF dtc_count >= 1 THEN 1 ELSE 0

MilPoints(d) == IF Get(d, "mil_status", 0) # 0 THEN 2 ELSE 0

DistancePoints(d) == IF Get(d, "distance_w_mil", 0) > 50 THEN 1 ELSE 0

\* the stress_score accumulated by the weighted sum
StressScore(d) ==
    LoadPoints(d) + RpmPoints(d) + TempPoints(d) + VoltagePoints(d) + TrimPoints(d)
    + O2Points(d) + DtcPoints(d) + MilPoints(d) + DistancePoints(d)

\* the classification with a CRITICAL band on top of the weighted sum
ClassifyMutant(stress_score) ==
    IF stress_score >= 15 THEN 3
    ELSE IF stress_score >= 6 THEN 2
    ELSE IF stress_score >= 3 THEN 1 ELSE 0

\* the risk classification of a total score
Classify(stress_score) ==
    IF stress_score >= 6 THEN 2
    ELSE IF stress_score >= 3 THEN 1 ELSE 0

\* the label classified on the engine load factor alone
AutoLabelHealthMutant(d) ==
    IF HardCritical(d) THEN <<3, 15>>
    ELSE <<Classify(LoadPoints(d)), StressScore(d)>>

\* _auto_label_health(data): <<health_status, stress_score>>
AutoLabelHealth(d) ==
    IF HardCritical(d) THEN <<3, 15>>
    ELSE <<Classify(StressScore(d)), StressScore(d)>>

(***************************************************************************)
(* SpecRule: the rule engine applied to a bounded set of readings.         *)
(***************************************************************************)
\* number of fields in which an input reading differs from one of the base readings
MaxDeviations == 2

\* the values tried for each field
FieldVals(k) ==
    CASE k = "coolant_temp" -> {90, 96, 101, 106, 110, 111, 115}
      [] k = "control_module_voltage" -> {0, 105, 110, 115, 125, 130, 141, 150, 155}
      [] k = "dtc_count" -> {0, 1, 3, 10, 11}
      [] k = "catalyst_temp_b1s1" -> {0, 900, 901}
      [] k = "engine_load" -> {0, 299, 300, 500, 506, 710, 860, 950, 951}
      [] k = "rpm" -> {0, 1028, 3500, 3600, 4500, 4600}
      [] k = "short_fuel_trim_1" -> {-25, -15, 0, 10, 11, 20, 21}
      [] k = "long_fuel_trim_1" -> {-16, -9, 0, 8, 9, 15, 16}
      [] k = "o2_b1s1" -> {0, 15, 45, 75, 76, 90}
      [] k = "mil_status" -> {0, 1}
      [] k = "distance_w_mil" -> {0, 50, 51}

\* the dict d with d[k] = v
Override(d, k, v) == [x \in DOMAIN d \cup {k} |-> IF x = k THEN v ELSE d[x]]

\* the dict d without the key k
Remove(d, k) == [x \in DOMAIN d \ {k} |-> d[x]]

EmptyReading == [x \in {} |-> 0]

\* the idle reading of the end-to-end scenario: every other field absent
IdleReading ==
    [x \in {"rpm", "coolant_temp", "engine_load", "control_module_voltage",
            "dtc_count", "mil_status"} |->
        CASE x = "rpm" -> 1028
          [] x = "coolant_temp" -> 96
          [] x = "engine_load" -> 506
          [] x = "control_module_voltage" -> 141
          [] x = "dtc_count" -> 0
          [] x = "mil_status" -> 0]

\* every factor of the weighted sum at its highest step, no hard threshold crossed
StressedReading ==
    [x \in Keys |->
        CASE x = "coolant_temp" -> 106
          [] x = "control_module_voltage" -> 115
          [] x = "dtc_count" -> 5
          [] x = "catalyst_temp_b1s1" -> 500
          [] x = "engine_load" -> 860
          [] x = "rpm" -> 4600
          [] x = "short_fuel_trim_1" -> 25
          [] x = "long_fuel_trim_1" -> 0
          [] x = "o2_b1s1" -> 90
          [] x = "mil_status" -> 1
          [] x = "distance_w_mil" -> 60]

BaseReadings == {EmptyReading, IdleReading, StressedReading}

RECURSIVE Deviate(_, _)
Deviate(D, n) ==
    IF n = 0 THEN D
    ELSE LET E == Deviate(D, n - 1)
         IN  E \cup {Remove(e, k) : e \in E, k \in Keys}
               \cup UNION {{Override(e, k, v) : e \in E, v \in FieldVals(k)} : k \in Keys}

\* the readings handed to the rule engine
Readings == Deviate(BaseReadings, MaxDeviations)

(***************************************************************************)
(* SpecPair: the rule engine applied to two readings.  The second reading  *)
(* is taken from a ladder of readings of growing score, the first from the *)
(* readings that differ from a ladder reading in MaxPairDeviations fields. *)
(***************************************************************************)
MaxPairDeviations == 1

\* the field settings that lead up the ladder, each adding to the weighted sum
LadderSteps ==
    << <<"engine_load", 506>>, <<"engine_load", 710>>, <<"engine_load", 860>>,
       <<"coolant_temp", 96>>, <<"coolant_temp", 101>>, <<"coolant_temp", 106>>,
       <<"dtc_count", 1>>, <<"dtc_count", 3>>, <<"mil_status", 1>>, <<"rpm", 4600>>,
       <<"control_module_voltage", 125>>, <<"control_module_voltage", 115>>,
       <<"o2_b1s1", 90>>, <<"short_fuel_trim_1", 11>>, <<"short_fuel_trim_1", 21>>,
       <<"distance_w_mil", 51>> >>

RECURSIVE Ladder(_)
Ladder(n) ==
    IF n = 0 THEN EmptyReading
    ELSE Override(Ladder(n - 1), LadderSteps[n][1], LadderSteps[n][2])

ScoreLadder == {Ladder(n) : n \in 0..Len(LadderSteps)}

PairReadings == Deviate(ScoreLadder, MaxPairDeviations)

PairIdle == other = EmptyReading /\ other_label = <<>>

PairInit ==
    /\ data \in PairReadings
    /\ label = <<>>
    /\ other \in ScoreLadder
    /\ other_label = <<>>

\* ---- the values of a part's variables while another part is checked ----
RuleIdle == data = EmptyReading /\ label = <<>>

(***************************************************************************)
(* Spec: one ProfessionalCloudCollector.  The collection thread runs       *)
(* data_collection_loop; stop_collection runs in the main thread (from the *)
(* signal handler).  One action is one step between two accesses of the    *)
(* state the threads share; sleeps are folded into the step before them.   *)
(***************************************************************************)
\* self.batch_size
batch_size == 10
\* max_errors of data_collection_loop
max_errors == 5
\* deque(maxlen=100)
maxlen == 100
\* bound of the model: read cycles started while the running flag is set
MaxReadings == 15

\* session ids: the one generated by __init__, and another one
SessionIds == {"cloud_1", "cloud_2"}

InitHist == [stopRequested |-> FALSE, readAfterStop |-> FALSE, intruded |-> FALSE,
             maxOffered |-> 0, allStoresOk |-> TRUE, cycleFull |-> FALSE,
             reconnected |-> FALSE]

CloudInit ==
    /\ running = FALSE
    /\ connection = "none"
    /\ current_vehicle_id = 0
    /\ session_id = "cloud_1"
    /\ data_buffer = <<>>
    /\ session_stats = [total_readings |-> 0, successful_readings |-> 0,
                        stored_records |-> 0, errors |-> 0]
    /\ consecutive_errors = 0
    /\ wpc = "not_started"
    /\ w_batch = <<>>
    /\ w_site = "loop"
    /\ spc = "idle"
    /\ s_batch = <<>>
    /\ sensor_table = <<>>
    /\ hist = InitHist

\* deque.append on a deque with maxlen: the oldest entry leaves a full deque
DequeAppend(q, x) == IF Len(q) >= maxlen THEN Append(Tail(q), x) ELSE Append(q, x)

\* the acquisition numbers of a batch
RECURSIVE Numbers(_)
Numbers(b) == IF b = <<>> THEN <<>> ELSE <<Head(b).n>> \o Numbers(Tail(b))

MaxNumber(b) == IF b = <<>> THEN 0 ELSE b[Len(b)].n

\* position of the worker after upload_batch_to_cloud returned to its call site
AfterUpload(site) == IF site = "loop" THEN "loop" ELSE "done"

\* the worker is inside a read / append / flush cycle
InCycle == wpc \in {"read", "append", "check_batch", "upload", "store"} /\ w_site = "loop"

notCloud == <<ruleVars, vehVars, syncVars, moreVars>>

\* start_collection going on without a vehicle profile
StartCollectionMutant ==
    /\ wpc = "not_started"
    /\ spc = "idle"
    /\ \E connected \in BOOLEAN, vehicle_id \in {0, 1} :
         /\ connection' = IF connected THEN "open" ELSE "none"
         /\ current_vehicle_id' = IF connected THEN vehicle_id ELSE 0
         /\ running' = connected
         /\ wpc' = IF connected THEN "loop" ELSE "start_failed"
    /\ UNCHANGED <<session_id, data_buffer, session_stats, consecutive_errors, w_batch,
                   w_site, spc, s_batch, sensor_table, hist, notCloud>>

\* start_collection: connect_obd, then detect_and_setup_vehicle, then the thread
StartCollection ==
    /\ wpc = "not_started"
    /\ spc = "idle"
    /\ \E connected \in BOOLEAN, vehicle_id \in {0, 1} :
         /\ connection' = IF connected THEN "open" ELSE "none"
         /\ current_vehicle_id' = IF connected THEN vehicle_id ELSE 0
         /\ running' = (connected /\ vehicle_id # 0)
         /\ wpc' = IF connected /\ vehicle_id # 0 THEN "loop" ELSE "start_failed"
    /\ UNCHANGED <<session_id, data_buffer, session_stats, consecutive_errors, w_batch,
                   w_site, spc, s_batch, sensor_table, hist, notCloud>>

\* while self.running.is_set(): total_readings += 1
LoopCheck ==
    /\ wpc = "loop"
    /\ running => session_stats.total_readings < MaxReadings
    /\ IF running
       THEN /\ session_stats' = [session_stats EXCEPT !.total_readings = @ + 1]
            /\ wpc' = "read"
            /\ w_site' = "loop"
            /\ hist' = [hist EXCEPT !.cycleFull = FALSE]
       ELSE /\ wpc' = "exit"
            /\ UNCHANGED <<session_stats, w_site, hist>>
    /\ UNCHANGED <<running, connection, current_vehicle_id, session_id, data_buffer,
                   consecutive_errors, w_batch, spc, s_batch, sensor_table, notCloud>>

\* sensor_data = self.read_obd_data(): None without a connected adapter or when no
\* parameter answered
ReadObdData ==
    /\ wpc = "read"
    /\ \E answered \in BOOLEAN :
         wpc' = IF connection = "open" /\ answered THEN "append" ELSE "count_error"
    /\ hist' = [hist EXCEPT !.readAfterStop = @ \/ hist.stopRequested]
    /\ UNCHANGED <<running, connection, current_vehicle_id, session_id, data_buffer,
                   session_stats, consecutive_errors, w_batch, w_site, spc, s_batch,
                   sensor_table, notCloud>>

\* successful_readings += 1; self.data_buffer.append(sensor_data)
AppendReading ==
    /\ wpc = "append"
    /\ session_stats' = [session_stats EXCEPT !.successful_readings = @ + 1]
    /\ data_buffer' = DequeAppend(data_buffer,
                        [n |-> session_stats.successful_readings + 1, sid |-> session_id])
    /\ hist' = [hist EXCEPT !.cycleFull = Len(data_buffer') >= batch_size]
    /\ wpc' = "check_batch"
    /\ UNCHANGED <<running, connection, current_vehicle_id, session_id,
                   consecutive_errors, w_batch, w_site, spc, s_batch, sensor_table,
                   notCloud>>

\* if len(self.data_buffer) >= self.batch_size: self.upload_batch_to_cloud()
\* consecutive_errors = 0
CheckBatch ==
    /\ wpc = "check_batch"
    /\ IF Len(data_buffer) >= batch_size
       THEN /\ wpc' = "upload"
            /\ UNCHANGED consecutive_errors
       ELSE /\ wpc' = "loop"
            /\ consecutive_errors' = 0
    /\ UNCHANGED <<running, connection, current_vehicle_id, session_id, data_buffer,
                   session_stats, w_batch, w_site, spc, s_batch, sensor_table, hist,
                   notCloud>>

\* upload_batch_to_cloud in the worker, up to batch_data = list(self.data_buffer)
WorkerUploadSnapshot ==
    /\ wpc = "upload"
    /\ IF data_buffer = <<>> \/ current_vehicle_id = 0
       THEN /\ wpc' = AfterUpload(w_site)
            /\ consecutive_errors' = IF w_site = "loop" THEN 0 ELSE consecutive_errors
            /\ UNCHANGED <<w_batch, hist>>
       ELSE /\ w_batch' = data_buffer
            /\ wpc' = "store"
            /\ hist' = [hist EXCEPT !.maxOffered =
                            IF MaxNumber(data_buffer) > @ THEN MaxNumber(data_buffer) ELSE @]
            /\ UNCHANGED consecutive_errors
    /\ UNCHANGED <<running, connection, current_vehicle_id, session_id, data_buffer,
                   session_stats, w_site, spc, s_batch, sensor_table, notCloud>>

\* upload_batch_to_cloud with the buffer cleared whatever the store call returned
WorkerUploadStoreMutant ==
    /\ wpc = "store"
    /\ \E success \in BOOLEAN :
         /\ sensor_table' = IF success THEN sensor_table \o Numbers(w_batch) ELSE sensor_table
         /\ session_stats' = IF success
                             THEN [session_stats EXCEPT !.stored_records = @ + Len(w_batch)]
                             ELSE session_stats
         /\ data_buffer' = <<>>
         /\ hist' = [hist EXCEPT !.allStoresOk = @ /\ success]
    /\ w_batch' = <<>>
    /\ wpc' = AfterUpload(w_site)
    /\ consecutive_errors' = IF w_site = "loop" THEN 0 ELSE consecutive_errors
    /\ UNCHANGED <<running, connection, current_vehicle_id, session_id, w_site, spc,
                   s_batch, notCloud>>

\* upload_batch_to_cloud in the worker, from store_sensor_data_batch to the return
WorkerUploadStore ==
    /\ wpc = "store"
    /\ \E success \in BOOLEAN :
         /\ sensor_table' = IF success THEN sensor_table \o Numbers(w_batch) ELSE sensor_table
         /\ session_stats' = IF success
                             THEN [session_stats EXCEPT !.stored_records = @ + Len(w_batch)]
                             ELSE session_stats
         /\ data_buffer' = IF success THEN <<>> ELSE data_buffer
         /\ hist' = [hist EXCEPT !.allStoresOk = @ /\ success]
    /\ w_batch' = <<>>
    /\ wpc' = AfterUpload(w_site)
    /\ consecutive_errors' = IF w_site = "loop" THEN 0 ELSE consecutive_errors
    /\ UNCHANGED <<running, connection, current_vehicle_id, session_id, w_site, spc,
                   s_batch, notCloud>>

\* consecutive_errors += 1; errors += 1; if consecutive_errors >= max_errors: ...
CountError ==
    /\ wpc = "count_error"
    /\ consecutive_errors' = consecutive_errors + 1
    /\ session_stats' = [session_stats EXCEPT !.errors = @ + 1]
    /\ wpc' = IF consecutive_errors + 1 >= max_errors THEN "reconnect" ELSE "loop"
    /\ UNCHANGED <<running, connection, current_vehicle_id, session_id, data_buffer,
                   w_batch, w_site, spc, s_batch, sensor_table, hist, notCloud>>

\* the reconnect without the reset of the counter
ReconnectMutant ==
    /\ wpc = "reconnect"
    /\ \E connected \in BOOLEAN :
         /\ connection' = IF connected THEN "open" ELSE "closed"
         /\ hist' = [hist EXCEPT !.reconnected = @ \/ connected]
    /\ wpc' = "loop"
    /\ UNCHANGED <<running, current_vehicle_id, session_id, data_buffer, session_stats,
                   consecutive_errors, w_batch, w_site, spc, s_batch, sensor_table,
                   notCloud>>

\* self.connection.close(); time.sleep(10); if self.connect_obd(): consecutive_errors = 0
Reconnect ==
    /\ wpc = "reconnect"
    /\ \E connected \in BOOLEAN :
         /\ connection' = IF connected THEN "open" ELSE "closed"
         /\ consecutive_errors' = IF connected THEN 0 ELSE consecutive_errors
         /\ hist' = [hist EXCEPT !.reconnected = @ \/ connected]
    /\ wpc' = "loop"
    /\ UNCHANGED <<running, current_vehicle_id, session_id, data_buffer, session_stats,
                   w_batch, w_site, spc, s_batch, sensor_table, notCloud>>

\* after the loop: self.running.clear(); if self.data_buffer: self.upload_batch_to_cloud()
LoopExit ==
    /\ wpc = "exit"
    /\ running' = FALSE
    /\ w_site' = "final"
    /\ wpc' = IF data_buffer # <<>> THEN "upload" ELSE "done"
    /\ UNCHANGED <<connection, current_vehicle_id, session_id, data_buffer, session_stats,
                   consecutive_errors, w_batch, spc, s_batch, sensor_table, hist, notCloud>>

\* stop_collection: if not self.running.is_set(): return; self.running.clear()
StopCollection ==
    /\ spc = "idle"
    /\ IF running
       THEN /\ running' = FALSE
            /\ spc' = "flush"
            /\ hist' = [hist EXCEPT !.stopRequested = TRUE]
       ELSE /\ spc' = "done"
            /\ UNCHANGED <<running, hist>>
    /\ UNCHANGED <<connection, current_vehicle_id, session_id, data_buffer, session_stats,
                   consecutive_errors, wpc, w_batch, w_site, s_batch, sensor_table,
                   notCloud>>

\* stop_collection: if self.data_buffer: upload_batch_to_cloud, up to the snapshot
StopUploadSnapshot ==
    /\ spc = "flush"
    /\ IF data_buffer = <<>> \/ current_vehicle_id = 0
       THEN /\ spc' = "close"
            /\ UNCHANGED <<s_batch, hist>>
       ELSE /\ s_batch' = data_buffer
            /\ spc' = "store"
            /\ hist' = [hist EXCEPT !.maxOffered =
                            IF MaxNumber(data_buffer) > @ THEN MaxNumber(data_buffer) ELSE @]
    /\ UNCHANGED <<running, connection, current_vehicle_id, session_id, data_buffer,
                   session_stats, consecutive_errors, wpc, w_batch, w_site, sensor_table,
                   notCloud>>

\* stop_collection: upload_batch_to_cloud from store_sensor_data_batch to the return
StopUploadStore ==
    /\ spc = "store"
    /\ \E success \in BOOLEAN :
         /\ sensor_table' = IF success THEN sensor_table \o Numbers(s_batch) ELSE sensor_table
         /\ session_stats' = IF success
                             THEN [session_stats EXCEPT !.stored_records = @ + Len(s_batch)]
                             ELSE session_stats
         /\ data_buffer' = IF success THEN <<>> ELSE data_buffer
         /\ hist' = [hist EXCEPT !.allStoresOk = @ /\ success,
                                 !.intruded = @ \/ InCycle]
    /\ s_batch' = <<>>
    /\ spc' = "close"
    /\ UNCHANGED <<running, connection, current_vehicle_id, session_id,
                   consecutive_errors, wpc, w_batch, w_site, notCloud>>

\* stop_collection: if self.connection: self.connection.close()
StopClose ==
    /\ spc = "close"
    /\ connection' = IF connection = "none" THEN "none" ELSE "closed"
    /\ hist' = [hist EXCEPT !.intruded = @ \/ InCycle]
    /\ spc' = "done"
    /\ UNCHANGED <<running, current_vehicle_id, session_id, data_buffer, session_stats,
                   consecutive_errors, wpc, w_batch, w_site, s_batch, sensor_table,
                   notCloud>>

CloudNext ==
    \/ StartCollection
    \/ LoopCheck
    \/ ReadObdData
    \/ AppendReading
    \/ CheckBatch
    \/ WorkerUploadSnapshot
    \/ WorkerUploadStore
    \/ CountError
    \/ Reconnect
    \/ LoopExit
    \/ StopCollection
    \/ StopUploadSnapshot
    \/ StopUploadStore
    \/ StopClose

(***************************************************************************)
(* SpecVehicle: ProfessionalVehicleCollector from the start of             *)
(* professional_collection_loop.  The loop runs in the main thread, and so *)
(* does the signal handler: stop() runs as a whole between two steps of    *)
(* the loop.  Of session_stats only the two counters that the buffer       *)
(* determines are kept.                                                    *)
(***************************************************************************)
\* config['batch_size']
v_batch_size == 10
\* config['max_consecutive_errors']
max_consecutive_errors == 10
\* bound of the model: data points appended to data_batch
MaxPoints == 101

VehInit ==
    /\ stop_event = FALSE
    /\ is_running = TRUE
    /\ obd_connection = "open"
    /\ data_batch = <<>>
    /\ v_stats = [successful_readings |-> 0, stored_records |-> 0]
    /\ v_consecutive_errors = 0
    /\ vpc = "loop"
    /\ v_hist = [stopRequested |-> FALSE, readAfterStop |-> FALSE,
                 lowQualityDropped |-> FALSE]

notVeh == <<ruleVars, cloudVars, syncVars, moreVars>>

\* store_batch_data with the result of insert_batch_data (all rows, or 0 on an error):
\* the buffer afterwards
StoreBatchBuffer(inserted) == IF inserted THEN <<>> ELSE data_batch

\* store_batch_data: session_stats afterwards
StoreBatchStats(inserted) ==
    IF inserted /\ data_batch # <<>>
    THEN [v_stats EXCEPT !.stored_records = @ + Len(data_batch)]
    ELSE v_stats

\* while not self.stop_event.is_set():
VehLoopCheck ==
    /\ vpc = "loop"
    /\ ~stop_event => v_stats.successful_readings < MaxPoints
    /\ vpc' = IF stop_event THEN "final" ELSE "read"
    /\ UNCHANGED <<stop_event, is_running, obd_connection, data_batch, v_stats,
                   v_consecutive_errors, v_hist, notVeh>>

\* read_comprehensive_vehicle_data and the quality gate (quality_score >=
\* self.quality_threshold: append, else the reading is only logged); an exception of
\* the cycle counts as a consecutive error and ends the loop at max_consecutive_errors
VehRead ==
    /\ vpc = "read"
    /\ \E outcome \in {"accepted", "low_quality", "raised"} :
         /\ outcome = "accepted" => obd_connection = "open"
         /\ data_batch' = IF outcome = "accepted"
                          THEN Append(data_batch, v_stats.successful_readings + 1)
                          ELSE data_batch
         /\ v_stats' = IF outcome = "accepted"
                       THEN [v_stats EXCEPT !.successful_readings = @ + 1]
                       ELSE v_stats
         /\ v_consecutive_errors' =
              CASE outcome = "accepted" -> 0
                [] outcome = "low_quality" -> v_consecutive_errors
                [] outcome = "raised" -> v_consecutive_errors + 1
         /\ vpc' = IF outcome # "raised" THEN "store_check"
                   ELSE IF v_consecutive_errors + 1 >= max_consecutive_errors
                        THEN "final" ELSE "loop"
         /\ v_hist' = [v_hist EXCEPT
                         !.readAfterStop = @ \/ v_hist.stopRequested,
                         !.lowQualityDropped =
                             @ \/ (outcome = "low_quality" /\ data_batch' = data_batch)]
    /\ UNCHANGED <<stop_event, is_running, obd_connection, notVeh>>

\* if len(self.data_batch) >= self.batch_size: self.store_batch_data()
VehStoreCheck ==
    /\ vpc = "store_check"
    /\ \E inserted \in BOOLEAN :
         /\ data_batch' = IF Len(data_batch) >= v_batch_size
                          THEN StoreBatchBuffer(inserted) ELSE data_batch
         /\ v_stats' = IF Len(data_batch) >= v_batch_size
                       THEN StoreBatchStats(inserted) ELSE v_stats
    /\ vpc' = "loop"
    /\ UNCHANGED <<stop_event, is_running, obd_connection, v_consecutive_errors, v_hist,
                   notVeh>>

\* after the loop: if self.data_batch: self.store_batch_data()
VehFinalBatch ==
    /\ vpc = "final"
    /\ \E inserted \in BOOLEAN :
         /\ data_batch' = StoreBatchBuffer(inserted)
         /\ v_stats' = StoreBatchStats(inserted)
    /\ vpc' = "finally"
    /\ UNCHANGED <<stop_event, is_running, obd_connection, v_consecutive_errors, v_hist,
                   notVeh>>

\* stop(): stop_event.set(); is_running = False; store_batch_data; obd_connection.close()
VehStopBody ==
    /\ stop_event' = TRUE
    /\ is_running' = FALSE
    /\ \E inserted \in BOOLEAN :
         /\ data_batch' = StoreBatchBuffer(inserted)
         /\ v_stats' = StoreBatchStats(inserted)
    /\ obd_connection' = "closed"
    /\ v_hist' = [v_hist EXCEPT !.stopRequested = TRUE]

\* the signal handler: stop() between two steps of the loop
VehSignal ==
    /\ vpc \in {"loop", "read", "store_check", "final"}
    /\ is_running
    /\ VehStopBody
    /\ UNCHANGED <<v_consecutive_errors, vpc, notVeh>>

\* run_professional_daemon_mode: finally: self.stop()
VehFinally ==
    /\ vpc = "finally"
    /\ IF is_running
       THEN VehStopBody
       ELSE UNCHANGED <<stop_event, is_running, data_batch, v_stats, obd_connection, v_hist>>
    /\ vpc' = "done"
    /\ UNCHANGED <<v_consecutive_errors, notVeh>>

VehNext ==
    \/ VehLoopCheck
    \/ VehRead
    \/ VehStoreCheck
    \/ VehFinalBatch
    \/ VehSignal
    \/ VehFinally

(***************************************************************************)
(* SpecSync: one call of SupabaseSync._upload_sensor_batch(batch).  An     *)
(* insert request is one transaction of the remote table: it fails as a    *)
(* whole when the service is unreachable or a record of it is rejected.    *)
(***************************************************************************)
\* bound of the model: records of the batch
MaxSyncBatch == 4

SyncBatches ==
    UNION {[1..len -> BOOLEAN] : len \in 1..MaxSyncBatch}

SyncInit ==
    /\ \E poison \in SyncBatches :
         /\ sy_batch = [i \in DOMAIN poison |-> [id |-> i, poison |-> poison[i]]]
         /\ sy_hist = [batchInserts |-> 0, singleInserts |-> [i \in DOMAIN poison |-> 0],
                       accepted |-> {}, batchFailed |-> FALSE]
    /\ sy_pos = 0
    /\ sy_rows = <<>>

SyncIdle ==
    /\ sy_batch = <<>>
    /\ sy_hist = [batchInserts |-> 0, singleInserts |-> <<>>, accepted |-> {},
                  batchFailed |-> FALSE]
    /\ sy_pos = 0
    /\ sy_rows = <<>>

notSync == <<ruleVars, cloudVars, vehVars, moreVars>>

RECURSIVE Ids(_)
Ids(b) == IF b = <<>> THEN <<>> ELSE <<Head(b).id>> \o Ids(Tail(b))

\* self.supabase.table('sensor_data').insert(records).execute() does not raise
InsertAccepted(records, reachable) ==
    reachable /\ \A i \in DOMAIN records : ~records[i].poison

\* try: self.supabase.table('sensor_data').insert(batch).execute()
SyncBatchInsert ==
    /\ sy_pos = 0
    /\ sy_batch # <<>>
    /\ \E reachable \in BOOLEAN :
         /\ sy_rows' = IF InsertAccepted(sy_batch, reachable)
                       THEN sy_rows \o Ids(sy_batch) ELSE sy_rows
         /\ sy_pos' = IF InsertAccepted(sy_batch, reachable) THEN Len(sy_batch) + 1 ELSE 1
         /\ sy_hist' = [sy_hist EXCEPT !.batchInserts = @ + 1,
                                       !.batchFailed = ~InsertAccepted(sy_batch, reachable)]
    /\ UNCHANGED <<sy_batch, notSync>>

\* the per-record loop leaving at the first record that fails
SyncSingleInsertMutant ==
    /\ sy_pos \in 1..Len(sy_batch)
    /\ \E reachable \in BOOLEAN :
         /\ sy_rows' = IF InsertAccepted(<<sy_batch[sy_pos]>>, reachable)
                       THEN Append(sy_rows, sy_batch[sy_pos].id) ELSE sy_rows
         /\ sy_hist' = [sy_hist EXCEPT
                          !.singleInserts[sy_pos] = @ + 1,
                          !.accepted = IF reachable THEN @ \cup {sy_pos} ELSE @]
         /\ sy_pos' = IF InsertAccepted(<<sy_batch[sy_pos]>>, reachable)
                      THEN sy_pos + 1 ELSE Len(sy_batch) + 1
    /\ UNCHANGED <<sy_batch, notSync>>

\* except: for record in batch: try: insert([record]) except: log
SyncSingleInsert ==
    /\ sy_pos \in 1..Len(sy_batch)
    /\ \E reachable \in BOOLEAN :
         /\ sy_rows' = IF InsertAccepted(<<sy_batch[sy_pos]>>, reachable)
                       THEN Append(sy_rows, sy_batch[sy_pos].id) ELSE sy_rows
         /\ sy_hist' = [sy_hist EXCEPT
                          !.singleInserts[sy_pos] = @ + 1,
                          !.accepted = IF reachable THEN @ \cup {sy_pos} ELSE @]
    /\ sy_pos' = sy_pos + 1
    /\ UNCHANGED <<sy_batch, notSync>>

SyncNext ==
    \/ SyncBatchInsert
    \/ SyncSingleInsert

(***************************************************************************)
(* SpecConnect: one call of ProfessionalCloudCollector.connect_obd or of   *)
(* ProfessionalVehicleCollector.connect_to_vehicle, with the default       *)
(* arguments.  The device paths that exist are fixed during the call; the  *)
(* outcome of every handshake is free.                                     *)
(***************************************************************************)
ConnectRoutines == {"connect_obd", "connect_to_vehicle"}

\* ports of connect_obd, connection_strategies of connect_to_vehicle, in listed order
Ports(impl) ==
    IF impl = "connect_obd"
    THEN <<"/dev/rfcomm0", "/dev/ttyACM0", "/dev/ttyUSB0", "/dev/ttyUSB1">>
    ELSE <<"/dev/rfcomm0", "/dev/ttyUSB0", "/dev/ttyUSB1", "/dev/ttyACM0", "/dev/ttyACM1">>

PortSet(impl) == {Ports(impl)[i] : i \in DOMAIN Ports(impl)}

\* the default of the parameter max_attempts
MaxAttempts(impl) == IF impl = "connect_obd" THEN 3 ELSE 5

\* obd.OBD(port) then is_connected(): connected, not connected, or an exception
Handshakes == {"connected", "no_response", "raised"}

ConnIdle ==
    /\ cn_impl = "connect_obd"
    /\ cn_exists = {}
    /\ cn_status = "idle"
    /\ cn_attempt = 0
    /\ cn_idx = 0
    /\ cn_log = <<>>
    /\ cn_sleeps = 0

ConnInit ==
    /\ cn_impl \in ConnectRoutines
    /\ cn_exists \in SUBSET PortSet(cn_impl)
    /\ cn_status = "idle"
    /\ cn_attempt = 0
    /\ cn_idx = 0
    /\ cn_log = <<>>
    /\ cn_sleeps = 0

notConn == <<ruleVars, cloudVars, vehVars, syncVars, pairVars, predVars, idVars, lateVars>>

\* the call up to the outer loop; connect_to_vehicle filters the strategies whose port
\* exists and returns False when none is left
ConnectEnter ==
    /\ cn_status = "idle"
    /\ IF cn_impl = "connect_to_vehicle" /\ cn_exists = {}
       THEN /\ cn_status' = "false"
            /\ UNCHANGED <<cn_attempt, cn_idx>>
       ELSE /\ cn_status' = "running"
            /\ cn_attempt' = 1
            /\ cn_idx' = 1
    /\ UNCHANGED <<cn_impl, cn_exists, cn_log, cn_sleeps, notConn>>

\* one pass of the inner loop: a candidate whose port does not exist is passed over,
\* the next one is opened and the routine returns True when it is connected
ConnectTry ==
    /\ cn_status = "running"
    /\ cn_idx \in DOMAIN Ports(cn_impl)
    /\ IF Ports(cn_impl)[cn_idx] \notin cn_exists
       THEN /\ cn_idx' = cn_idx + 1
            /\ UNCHANGED <<cn_status, cn_log>>
       ELSE \E outcome \in Handshakes :
              /\ cn_log' = Append(cn_log, [attempt |-> cn_attempt, idx |-> cn_idx,
                                           ok |-> outcome = "connected"])
              /\ IF outcome = "connected"
                 THEN cn_status' = "true" /\ UNCHANGED cn_idx
                 ELSE cn_idx' = cn_idx + 1 /\ UNCHANGED cn_status
    /\ UNCHANGED <<cn_impl, cn_exists, cn_attempt, cn_sleeps, notConn>>

\* the end of a round: if attempt < max_attempts: time.sleep(...), and the next round;
\* after the last round: return False
ConnectRoundEnd ==
    /\ cn_status = "running"
    /\ cn_idx = Len(Ports(cn_impl)) + 1
    /\ IF cn_attempt < MaxAttempts(cn_impl)
       THEN /\ cn_sleeps' = cn_sleeps + 1
            /\ cn_attempt' = cn_attempt + 1
            /\ cn_idx' = 1
            /\ UNCHANGED cn_status
       ELSE /\ cn_status' = "false"
            /\ UNCHANGED <<cn_sleeps, cn_attempt, cn_idx>>
    /\ UNCHANGED <<cn_impl, cn_exists, cn_log, notConn>>

ConnNext ==
    \/ ConnectEnter
    \/ ConnectTry
    \/ ConnectRoundEnd

(***************************************************************************)
(* SpecPredict: one MLHealthPredictor, from its construction to one call   *)
(* of predict and one call of engineer_features.  sensor_data is a dict    *)
(* whose keys hold a number (pr_sensor) or None (pr_null).  Units:         *)
(* engine_load and throttle_pos in 0.1 %, control_module_voltage in 0.1 V. *)
(***************************************************************************)
\* number of keys of sensor_data that hold None
MaxNulls == 2

\* vehicle_health_rf_model_4class.pkl, scaler_4class.pkl, model_metadata_4class.json
ModelFiles == {"model", "scaler", "metadata"}

\* the keys of sensor_data read by engineer_features and predict in comparisons
SensorKeys == {"rpm", "speed", "coolant_temp", "engine_load", "throttle_pos",
               "control_module_voltage", "dtc_count", "engine_stress_score"}

\* the idle reading of the end-to-end scenario as sensor_data
IdleSensorData ==
    [x \in SensorKeys |->
        CASE x = "rpm" -> 1028
          [] x = "speed" -> 0
          [] x = "coolant_temp" -> 96
          [] x = "engine_load" -> 506
          [] x = "throttle_pos" -> 188
          [] x = "control_module_voltage" -> 141
          [] x = "dtc_count" -> 0
          [] x = "engine_stress_score" -> 2]

\* a reading at speed, hot and with trouble codes
DrivingSensorData ==
    [x \in SensorKeys |->
        CASE x = "rpm" -> 3200
          [] x = "speed" -> 80
          [] x = "coolant_temp" -> 104
          [] x = "engine_load" -> 720
          [] x = "throttle_pos" -> 750
          [] x = "control_module_voltage" -> 121
          [] x = "dtc_count" -> 2
          [] x = "engine_stress_score" -> 7]

SensorInputs == {EmptyReading, IdleSensorData, DrivingSensorData}

NoFeatures ==
    [kind |-> "none", rpm_load_ratio |-> <<0, 1>>, temp_efficiency |-> <<0, 1>>,
     speed_throttle_ratio |-> <<0, 1>>, high_rpm |-> 0, low_speed |-> 0,
     high_throttle |-> 0, voltage_health |-> 0, stress_indicator |-> 0]

NoResult == [kind |-> "pending", predicted_health_status |-> 0]

PredIdle ==
    /\ pr_files = {}
    /\ pr_sensor = EmptyReading
    /\ pr_null = {}
    /\ pr_is_loaded = FALSE
    /\ pr_pc = "init"
    /\ pr_features = NoFeatures
    /\ pr_result = NoResult

PredInit ==
    /\ pr_files \in SUBSET ModelFiles
    /\ pr_sensor \in SensorInputs
    /\ pr_null \in {N \in SUBSET SensorKeys : Cardinality(N) <= MaxNulls}
    /\ pr_is_loaded = FALSE
    /\ pr_pc = "init"
    /\ pr_features = NoFeatures
    /\ pr_result = NoResult

notPred == <<ruleVars, cloudVars, vehVars, syncVars, connVars, pairVars, idVars, lateVars>>

\* sensor_data.get(key, default) when the value is not None
SensorGet(key, default) == IF key \in DOMAIN pr_sensor THEN pr_sensor[key] ELSE default

\* engineer_features raises TypeError: a comparison or division meets None
EngineerRaises ==
    pr_null \cap {"engine_load", "rpm", "coolant_temp", "throttle_pos", "speed",
                  "control_module_voltage"} # {}

\* engineer_features(sensor_data) when nothing raises (the raw features take 0 for an
\* absent key, so that the default 14 of the voltage is never used)
EngineerFeatures ==
    LET rpm == SensorGet("rpm", 0)
        vehicle_speed == SensorGet("speed", 0)
        engine_load == SensorGet("engine_load", 0)
        coolant_temp == SensorGet("coolant_temp", 0)
        throttle_pos == SensorGet("throttle_pos", 0)
        voltage == SensorGet("control_module_voltage", 0)
        high_rpm == IF rpm > 3000 THEN 1 ELSE 0
    IN  [kind |-> "features",
         rpm_load_ratio |-> IF engine_load > 0 THEN <<rpm, engine_load>> ELSE <<0, 1>>,
         temp_efficiency |-> IF coolant_temp > 0 THEN <<engine_load, coolant_temp>>
                             ELSE <<0, 1>>,
         speed_throttle_ratio |-> IF throttle_pos > 0 THEN <<vehicle_speed, throttle_pos>>
                                  ELSE <<0, 1>>,
         high_rpm |-> high_rpm,
         low_speed |-> IF vehicle_speed < 20 THEN 1 ELSE 0,
         high_throttle |-> IF throttle_pos > 700 THEN 1 ELSE 0,
         voltage_health |-> IF 125 <= voltage /\ voltage <= 145 THEN 1 ELSE 0,
         stress_indicator |-> IF high_rpm = 1 /\ engine_load > 600 THEN 1 ELSE 0]

\* predict after engineer_features raises: stress_score >= 6 is evaluated unless the
\* prediction is CRITICAL, coolant > 100, voltage < 12.5 and dtc > 0 always
PredictRaises(prediction) ==
    \/ EngineerRaises
    \/ "engine_stress_score" \in pr_null /\ prediction # 3
    \/ "dtc_count" \in pr_null

\* load_model, called by __init__: is_loaded only when the three files load
LoadModel ==
    /\ pr_pc = "init"
    /\ pr_is_loaded' = (pr_files = ModelFiles)
    /\ pr_pc' = "ready"
    /\ UNCHANGED <<pr_files, pr_sensor, pr_null, pr_features, pr_result, notPred>>

\* a call of engineer_features(sensor_data)
EngineerFeaturesCall ==
    /\ pr_pc = "ready"
    /\ pr_features.kind = "none"
    /\ pr_features' = IF EngineerRaises THEN [NoFeatures EXCEPT !.kind = "raised"]
                      ELSE EngineerFeatures
    /\ UNCHANGED <<pr_files, pr_sensor, pr_null, pr_is_loaded, pr_pc, pr_result, notPred>>

\* predict(sensor_data): None when the model is not loaded or on any exception, else
\* the class chosen by the trained model
Predict ==
    /\ pr_pc = "ready"
    /\ IF ~pr_is_loaded
       THEN pr_result' = [NoResult EXCEPT !.kind = "None"]
       ELSE \E prediction \in 0..3 :
              pr_result' = IF PredictRaises(prediction)
                           THEN [NoResult EXCEPT !.kind = "None"]
                           ELSE [kind |-> "result", predicted_health_status |-> prediction]
    /\ pr_pc' = "done"
    /\ UNCHANGED <<pr_files, pr_sensor, pr_null, pr_is_loaded, pr_features, notPred>>

PredNext ==
    \/ LoadModel
    \/ EngineerFeaturesCall
    \/ Predict

(***************************************************************************)
(* SpecIdentity: one vehicle connected to MaxConnections times, with the   *)
(* same supported commands and protocol and with no VIN to be had.  At     *)
(* each connection the collector generates the signature and resolves it   *)
(* through find-or-create; the profile store answers every request.        *)
(* A hash is modelled as an injective function of the string it digests.   *)
(***************************************************************************)
MaxConnections == 2

\* commands in the order of str(cmd): "0104: ...", "0105: ...", "010C: ...", "0902: ..."
CommandOrder == <<"ENGINE_LOAD", "COOLANT_TEMP", "RPM", "VIN">>

CommandSet == {CommandOrder[i] : i \in DOMAIN CommandOrder}

\* position of str(cmd) in the lexicographic order
Rank(cmd) == CHOOSE i \in DOMAIN CommandOrder : CommandOrder[i] = cmd

\* the sequences that enumerate the set S once: the iteration orders of a set
Enumerations(S) ==
    {q \in [1..Cardinality(S) -> S] : \A i, j \in DOMAIN q : i # j => q[i] # q[j]}

\* sorted(...): insertion of x into the sorted sequence q
RECURSIVE Insert(_, _)
Insert(q, x) ==
    IF q = <<>> THEN <<x>>
    ELSE IF Rank(x) <= Rank(Head(q)) THEN <<x>> \o q
    ELSE <<Head(q)>> \o Insert(Tail(q), x)

RECURSIVE Sorted(_)
Sorted(q) == IF q = <<>> THEN <<>> ELSE Insert(Sorted(Tail(q)), Head(q))

\* cmd_list[:30]
FirstThirty(q) == IF Len(q) > 30 THEN SubSeq(q, 1, 30) ELSE q

\* hashlib.sha256("|".join(signature_components).encode()).hexdigest()[:32]; a
\* component is written as the sequence of its parts
Sha256(components) == [digest |-> "sha256", of |-> components]

\* ProfessionalCloudCollector.generate_vehicle_signature: the sorted commands, and the
\* VIN when a valid one is read (here none is)
CloudSignature(iteration, vin) ==
    Sha256(<<Sorted(iteration)>> \o (IF vin = "" THEN <<>> ELSE << <<vin>> >>))

\* the first of RPM, COOLANT_TEMP, ENGINE_LOAD that is supported
BasicTest ==
    IF "RPM" \in id_commands THEN "RPM"
    ELSE IF "COOLANT_TEMP" \in id_commands THEN "COOLANT_TEMP"
    ELSE IF "ENGINE_LOAD" \in id_commands THEN "ENGINE_LOAD" ELSE ""

\* ProfessionalVehicleCollector._generate_vehicle_signature: CMDS, PROTO, and
\* "<cmd>:OK" when the first supported basic command answers
EcuSignature(iteration, answered) ==
    Sha256(<<FirstThirty(Sorted(iteration)),
             <<"PROTO", IF id_protocol = "" THEN "UNKNOWN" ELSE id_protocol>> >>
           \o (IF BasicTest # "" /\ answered THEN << <<BasicTest, "OK">> >> ELSE <<>>))

\* index of the profile whose car_identifier is the signature, 0 when there is none
FindProfile(signature) ==
    IF \E i \in DOMAIN id_profiles : id_profiles[i] = signature
    THEN CHOOSE i \in DOMAIN id_profiles : id_profiles[i] = signature
    ELSE 0

IdIdle ==
    /\ id_impl = "cloud"
    /\ id_commands = {}
    /\ id_protocol = ""
    /\ id_signatures = <<>>
    /\ id_vehicle_ids = <<>>
    /\ id_profiles = <<>>

\* a connected adapter always supports some command (the base commands of the
\* library), so that neither routine falls back to a signature made of the time
IdInit ==
    /\ id_impl \in {"cloud", "vehicle"}
    /\ id_commands \in SUBSET CommandSet \ {{}}
    /\ id_protocol \in {"", "ISO 15765-4 (CAN 11/500)"}
    /\ id_signatures = <<>>
    /\ id_vehicle_ids = <<>>
    /\ id_profiles \in {<<>>, << Sha256(<< <<"another vehicle">> >>) >>}

notId == <<ruleVars, cloudVars, vehVars, syncVars, connVars, pairVars, predVars, lateVars>>

\* one connection: the signature, then get_or_create_vehicle_profile (cloud) or
\* find_existing_vehicle_by_hybrid_id / create_enhanced_vehicle_profile (vehicle)
ResolveVehicle ==
    /\ Len(id_signatures) < MaxConnections
    /\ \E iteration \in Enumerations(id_commands), answered \in BOOLEAN :
         LET signature == IF id_impl = "cloud" THEN CloudSignature(iteration, "")
                          ELSE EcuSignature(iteration, answered)
             found == FindProfile(signature)
         IN  /\ id_signatures' = Append(id_signatures, signature)
             /\ id_profiles' = IF found = 0 THEN Append(id_profiles, signature)
                               ELSE id_profiles
             /\ id_vehicle_ids' = Append(id_vehicle_ids,
                                     IF found = 0 THEN Len(id_profiles) + 1 ELSE found)
    /\ UNCHANGED <<id_impl, id_commands, id_protocol, notId>>

IdNext == ResolveVehicle

(***************************************************************************)
(* SpecSessions: MaxSessions sessions of one vehicle (same supported       *)
(* commands, same protocol); the VIN query answers with the VIN in some    *)
(* sessions and with nothing in others.  Each session start generates the  *)
(* signature, resolves the profile and, in the local collector, runs       *)
(* setup_collection_session.  The time of a session is its number.         *)
(***************************************************************************)
MaxSessions == 3

TheVin == "1HGCM82633A004352"

\* a car_identifier that is a text (the VIN) and not a digest
Plain(text) == [digest |-> "none", of |-> << <<text>> >>]

\* the profile of another vehicle, stored before the first session
OtherProfile ==
    [car_identifier |-> Sha256(<< <<"another vehicle">> >>), notes_vin |-> "",
     total_sessions |-> 1, last_used |-> 0]

\* what the VIN query may return: nothing, or the VIN when the command is supported
VinReads == IF "VIN" \in id_commands THEN {"", TheVin} ELSE {""}

\* the first profile of S in the order of get_car_profiles (last_used DESC), 0 for none
FirstProfile(S) ==
    IF S = {} THEN 0
    ELSE CHOOSE i \in S : \A j \in S :
            \/ ss_profiles[i].last_used > ss_profiles[j].last_used
            \/ ss_profiles[i].last_used = ss_profiles[j].last_used /\ i <= j

\* SupabaseDirectStorage.get_or_create_vehicle_profile: select by car_identifier
FindByIdentifier(car_identifier) ==
    FirstProfile({i \in DOMAIN ss_profiles : ss_profiles[i].car_identifier = car_identifier})

\* find_existing_vehicle_by_hybrid_id: the VIN in the notes or as car_identifier (the
\* frame of get_car_profiles has no vin column), then the ECU signature as car_identifier
FindByHybridId(vin, ecu_signature) ==
    LET legacy_vin_matches ==
            {i \in DOMAIN ss_profiles :
                /\ vin # ""
                /\ \/ ss_profiles[i].notes_vin = vin
                   \/ ss_profiles[i].car_identifier = Plain(vin)}
        ecu_matches ==
            {i \in DOMAIN ss_profiles : ss_profiles[i].car_identifier = ecu_signature}
    IN  IF legacy_vin_matches # {} THEN FirstProfile(legacy_vin_matches)
        ELSE FirstProfile(ecu_matches)

\* the profile inserted by get_or_create_vehicle_profile
CloudProfile(car_signature, now) ==
    [car_identifier |-> car_signature, notes_vin |-> "", total_sessions |-> 1,
     last_used |-> now]

\* the profile inserted by create_enhanced_vehicle_profile
EnhancedProfile(vin, ecu_signature, now) ==
    [car_identifier |-> IF vin # "" THEN Plain(vin) ELSE ecu_signature,
     notes_vin |-> vin, total_sessions |-> 0, last_used |-> now]

\* _update_vehicle_with_vin: builds updated_data and logs it; nothing is written
UpdateVehicleWithVin(profiles, vehicle_id, vin) == profiles

\* setup_collection_session: self.database.update_car_last_used(vehicle_id)
UpdateCarLastUsed(profiles, vehicle_id, now) ==
    [profiles EXCEPT ![vehicle_id].last_used = now]

SessIdle ==
    /\ ss_log = <<>>
    /\ ss_profiles = <<>>


SessInit ==
    /\ id_impl \in {"cloud", "vehicle"}
    /\ id_commands \in SUBSET CommandSet \ {{}}
    /\ id_protocol \in {"", "ISO 15765-4 (CAN 11/500)"}
    /\ id_signatures = <<>>
    /\ id_vehicle_ids = <<>>
    /\ id_profiles = <<>>
    /\ ss_log = <<>>
    /\ ss_profiles \in {<<>>, <<OtherProfile>>}

notSess == <<ruleVars, cloudVars, vehVars, syncVars, connVars, pairVars, predVars, idVars,
             readVars, qualVars, paceVars>>

\* one session start: detect_and_setup_vehicle (cloud), or the identification of
\* run_professional_daemon_mode followed by setup_collection_session (vehicle)
StartSession ==
    /\ Len(ss_log) < MaxSessions
    /\ \E iteration \in Enumerations(id_commands), answered \in BOOLEAN, vin \in VinReads :
         LET now == Len(ss_log) + 1
             signature == IF id_impl = "cloud" THEN CloudSignature(iteration, vin)
                          ELSE EcuSignature(iteration, answered)
             found == IF id_impl = "cloud" THEN FindByIdentifier(signature)
                      ELSE FindByHybridId(vin, signature)
             vehicle_id == IF found = 0 THEN Len(ss_profiles) + 1 ELSE found
             resolved ==
                IF found = 0
                THEN Append(ss_profiles,
                            IF id_impl = "cloud" THEN CloudProfile(signature, now)
                            ELSE EnhancedProfile(vin, signature, now))
                ELSE IF id_impl = "vehicle" /\ vin # ""
                     THEN UpdateVehicleWithVin(ss_profiles, found, vin)
                     ELSE ss_profiles
             started == IF id_impl = "vehicle"
                        THEN UpdateCarLastUsed(resolved, vehicle_id, now)
                        ELSE resolved
         IN  /\ ss_profiles' = started
             /\ ss_log' = Append(ss_log,
                    [vin |-> vin, answered |-> answered, signature |-> signature,
                     vehicle_id |-> vehicle_id,
                     total_sessions |-> started[vehicle_id].total_sessions,
                     last_used |-> started[vehicle_id].last_used])
    /\ UNCHANGED notSess

SessNext == StartSession

(***************************************************************************)
(* SpecRead: MaxReads calls of read_obd_data on one connected              *)
(* ProfessionalCloudCollector.  Five of its 24 commands vary: each is      *)
(* supported or not for the whole run and, when supported, answers with a  *)
(* value, with a null response, or raises.  The other 19 commands are      *)
(* supported and answer.  A derived number is a fraction num / den, or     *)
(* null.                                                                   *)
(***************************************************************************)
MaxReads == 2

ReadParams == {"coolant_temp", "speed", "maf", "control_module_voltage", "o2_b1s1"}

\* the fields of the rule engine among the commands that always answer, and the
\* defaults of dtc_count and mil_status
AnsweredFields ==
    [x \in {"rpm", "engine_load", "catalyst_temp_b1s1", "short_fuel_trim_1",
            "long_fuel_trim_1", "distance_w_mil", "dtc_count", "mil_status"} |->
        CASE x = "rpm" -> 1028
          [] x = "engine_load" -> 306
          [] x = "catalyst_temp_b1s1" -> 400
          [] OTHER -> 0]

\* len(obd_commands)
NumCommands == 24

\* the values a supported command may answer with
ParamVals(p) ==
    CASE p = "coolant_temp" -> {85, 90}
      [] p = "speed" -> {0, 60}
      [] p = "maf" -> {12}
      [] p = "control_module_voltage" -> {141}
      [] p = "o2_b1s1" -> {45}

\* time.time() between two calls: a second later, or a second earlier after the wall
\* clock was set back
ClockSteps == {-1, 1}

Null == [null |-> TRUE, num |-> 0, den |-> 1]

Number(num, den) == [null |-> FALSE, num |-> num, den |-> den]

Unsupported == [kind |-> "unsupported", value |-> 0]

\* the outcomes of self.connection.query(command) for the parameter p
Responses(p) ==
    IF p \in rd_supported
    THEN {[kind |-> "value", value |-> v] : v \in ParamVals(p)}
            \cup {[kind |-> "null", value |-> 0], [kind |-> "raised", value |-> 0]}
    ELSE {Unsupported}

\* the loop over obd_commands: the value of a response, 0 for a command that raised
\* or is not supported, no key for a null response
RawData(resp) ==
    [x \in DOMAIN AnsweredFields \cup {p \in ReadParams : resp[p].kind # "null"} |->
        IF x \in ReadParams
        THEN (IF resp[x].kind = "value" THEN resp[x].value ELSE 0)
        ELSE AnsweredFields[x]]

\* successful_reads
SuccessfulReads(resp) ==
    (NumCommands - Cardinality(ReadParams))
        + Cardinality({p \in ReadParams : resp[p].kind = "value"})

\* int((successful_reads / total) * 100), total = len(obd_commands) + 3
DataQuality(successful_reads) == (successful_reads * 100) \div (NumCommands + 3)

\* temp_gradient, in degrees per minute
TempGradient(current_temp, current_time) ==
    IF ~current_temp.null /\ ~rd_prev_temp.null /\ ~rd_prev_temp_time.null
    THEN IF current_time - rd_prev_temp_time.num > 0
         THEN Number((current_temp.num - rd_prev_temp.num) * 60,
                     current_time - rd_prev_temp_time.num)
         ELSE Number(0, 1)
    ELSE Null

\* fuel_efficiency: maf / 1000 / 0.75 / speed * 3600 * 100
FuelEfficiency(d) ==
    IF "maf" \in DOMAIN d /\ "speed" \in DOMAIN d /\ d["speed"] > 0
    THEN Number(d["maf"] * 480, d["speed"])
    ELSE Null

NoReading ==
    [data |-> EmptyReading, responses |-> [p \in ReadParams |-> Unsupported],
     label |-> <<>>, temp_gradient |-> Null, fuel_efficiency |-> Null, data_quality |-> 0]

ReadIdle ==
    /\ rd_supported = {}
    /\ rd_time = 0
    /\ rd_prev_temp = Null
    /\ rd_prev_temp_time = Null
    /\ rd_reading = NoReading
    /\ rd_count = 0
    /\ rd_hist = [prevTempRead |-> FALSE, elapsed |-> 0]


ReadInit ==
    /\ rd_supported \in SUBSET ReadParams
    /\ rd_time = 0
    /\ rd_prev_temp = Null
    /\ rd_prev_temp_time = Null
    /\ rd_reading = NoReading
    /\ rd_count = 0
    /\ rd_hist = [prevTempRead |-> FALSE, elapsed |-> 0]

notRead == <<ruleVars, cloudVars, vehVars, syncVars, connVars, pairVars, predVars, idVars,
             sessVars, qualVars, paceVars>>

\* one call of read_obd_data on a connected adapter
ReadObd ==
    /\ rd_count < MaxReads
    /\ \E step \in ClockSteps,
          c \in Responses("coolant_temp"), s \in Responses("speed"), m \in Responses("maf"),
          v \in Responses("control_module_voltage"), o \in Responses("o2_b1s1") :
         LET resp == [p \in ReadParams |->
                        CASE p = "coolant_temp" -> c
                          [] p = "speed" -> s
                          [] p = "maf" -> m
                          [] p = "control_module_voltage" -> v
                          [] p = "o2_b1s1" -> o]
             d == RawData(resp)
             current_temp == IF "coolant_temp" \in DOMAIN d
                             THEN Number(d["coolant_temp"], 1) ELSE Null
             current_time == rd_time + step
         IN  /\ rd_reading' = [data |-> d, responses |-> resp,
                               label |-> AutoLabelHealth(d),
                               temp_gradient |-> TempGradient(current_temp, current_time),
                               fuel_efficiency |-> FuelEfficiency(d),
                               data_quality |-> DataQuality(SuccessfulReads(resp))]
             /\ rd_prev_temp' = current_temp
             /\ rd_prev_temp_time' = Number(current_time, 1)
             /\ rd_time' = current_time
             /\ rd_hist' = [prevTempRead |-> rd_count > 0
                                /\ rd_reading.responses["coolant_temp"].kind = "value",
                            elapsed |-> step]
    /\ rd_count' = rd_count + 1
    /\ UNCHANGED <<rd_supported, notRead>>

ReadNext == ReadObd

(***************************************************************************)
(* SpecQuality: the quality score of two readings of equal read duration.  *)
(* Three parameters vary: each is read, answers null, raises, or is not    *)
(* supported by the vehicle of that reading; every other parameter of the  *)
(* collector is supported and read.  The score of the local collector, a   *)
(* float in 0..1, is kept exactly as a multiple of 1 / (10 * ScoreUnit).   *)
(***************************************************************************)
QualityParams == {"rpm", "coolant_temp", "maf"}

Outcomes == {"value", "null", "raised", "unsupported"}

\* len(priority_commands)
NumPriority == 14

\* a common multiple of the denominators: total_attempted (11..14), 14, and 2, 3
ScoreUnit == 12012

\* read_duration: 1 s, 3 s, 5 s
Durations == {10, 30, 50}

\* the parameters of a reading that were read
Read(outcome) == {p \in QualityParams : outcome[p] = "value"}

\* max(0.5, min(1.0, 2.0 / max(read_duration, 0.1))), times ScoreUnit
TimingFactor(read_duration) ==
    LET d == IF read_duration > 1 THEN read_duration ELSE 1
        ratio == (20 * ScoreUnit) \div d
        capped == IF ratio < ScoreUnit THEN ratio ELSE ScoreUnit
    IN  IF capped > ScoreUnit \div 2 THEN capped ELSE ScoreUnit \div 2

\* read_comprehensive_vehicle_data: quality_score, times 10 * ScoreUnit
VehicleQuality(outcome, read_duration) ==
    LET successful_reads == (NumPriority - Cardinality(QualityParams))
                                + Cardinality(Read(outcome))
        total_attempted == (NumPriority - Cardinality(QualityParams))
                                + Cardinality({p \in QualityParams : outcome[p] # "unsupported"})
        base_quality == IF total_attempted > 0
                        THEN (successful_reads * ScoreUnit) \div total_attempted ELSE 0
        completeness_factor == (successful_reads * ScoreUnit) \div NumPriority
    IN  base_quality * 6 + TimingFactor(read_duration) * 2 + completeness_factor * 2

\* read_obd_data: data_quality
CloudQuality(outcome) ==
    DataQuality((NumCommands - Cardinality(QualityParams)) + Cardinality(Read(outcome)))

QualityScore(outcome) ==
    IF q_impl = "cloud" THEN CloudQuality(outcome) ELSE VehicleQuality(outcome, q_duration)

QualIdle ==
    /\ q_impl = "cloud"
    /\ q_duration = 10
    /\ q_first = [p \in QualityParams |-> "value"]
    /\ q_second = [p \in QualityParams |-> "value"]
    /\ q_scores = <<>>


QualInit ==
    /\ q_impl \in {"cloud", "vehicle"}
    /\ q_duration \in Durations
    /\ q_first \in [QualityParams -> Outcomes]
    /\ q_second \in [QualityParams -> Outcomes]
    /\ q_scores = <<>>

notQual == <<ruleVars, cloudVars, vehVars, syncVars, connVars, pairVars, predVars, idVars,
             sessVars, readVars, paceVars>>

\* the two readings are taken and scored
ScoreReadings ==
    /\ q_scores = <<>>
    /\ q_scores' = <<QualityScore(q_first), QualityScore(q_second)>>
    /\ UNCHANGED <<q_impl, q_duration, q_first, q_second, notQual>>

QualNext == ScoreReadings

(***************************************************************************)
(* SpecPace: the sleep at the end of the poll cycles of                    *)
(* data_collection_loop (cloud) and professional_collection_loop           *)
(* (vehicle), up to MaxCycles cycles.  Times are in 0.1 s.  A cycle yields *)
(* a reading that is kept, yields none that is kept, or raises.            *)
(***************************************************************************)
MaxCycles == 3

\* self.collection_interval = 1.0
collection_interval == 10

\* the time a cycle takes from its start to the computation of the sleep
CycleDurations == {0, 4, 10, 15}

CycleOutcomes == {"kept", "not_kept", "raised"}

Max(a, b) == IF a > b THEN a ELSE b

Min(a, b) == IF a < b THEN a ELSE b

\* sleep at the end of a cycle of data_collection_loop
CloudSleep(outcome) == IF outcome = "raised" THEN 50 ELSE collection_interval

\* sleep at the end of a cycle of professional_collection_loop
VehicleSleep(outcome, reading_duration, errors) ==
    IF outcome = "raised"
    THEN Min(50, errors * 5)
    ELSE Max(0, collection_interval - reading_duration)

\* consecutive_errors after the cycle
ErrorsAfter(outcome) ==
    CASE outcome = "kept" -> 0
      [] outcome = "raised" -> pc_errors + 1
      [] outcome = "not_kept" -> IF pc_impl = "cloud" THEN pc_errors + 1 ELSE pc_errors

PaceIdle ==
    /\ pc_impl = "cloud"
    /\ pc_errors = 0
    /\ pc_log = <<>>

LateIdle == SessIdle /\ ReadIdle /\ QualIdle /\ PaceIdle

PaceInit ==
    /\ pc_impl \in {"cloud", "vehicle"}
    /\ pc_errors = 0
    /\ pc_log = <<>>

notPace == <<ruleVars, cloudVars, vehVars, syncVars, connVars, pairVars, predVars, idVars,
             sessVars, readVars, qualVars>>

\* one cycle of the loop and the sleep that ends it
PollCycle ==
    /\ Len(pc_log) < MaxCycles
    /\ \E outcome \in CycleOutcomes, elapsed \in CycleDurations :
         /\ pc_errors' = ErrorsAfter(outcome)
         /\ pc_log' = Append(pc_log,
                [elapsed |-> elapsed, outcome |-> outcome,
                 sleep |-> IF pc_impl = "cloud" THEN CloudSleep(outcome)
                           ELSE VehicleSleep(outcome, elapsed, ErrorsAfter(outcome))])
    /\ UNCHANGED <<pc_impl, notPace>>

PaceNext == PollCycle

\* ---- the values of the added parts while another part is checked ----
MoreIdle == ConnIdle /\ PairIdle /\ PredIdle /\ IdIdle /\ LateIdle

(***************************************************************************)
(* The specifications.                                                     *)
(***************************************************************************)
\* the rule engine applied to one reading
LabelReading ==
    /\ label = <<>>
    /\ label' = AutoLabelHealth(data)
    /\ UNCHANGED <<data, cloudVars, vehVars, syncVars, moreVars>>

RuleInit == data \in Readings /\ label = <<>>

\* the rule engine applied to the second reading
LabelOther ==
    /\ other_label = <<>>
    /\ other_label' = AutoLabelHealth(other)
    /\ UNCHANGED <<other, ruleVars, cloudVars, vehVars, syncVars, connVars, predVars, idVars,
                   lateVars>>

PairNext ==
    \/ LabelReading
    \/ LabelOther

RuleNext == LabelReading

Init == RuleIdle /\ CloudInit /\ VehInit /\ SyncIdle /\ MoreIdle
Next == CloudNext
Spec == Init /\ [][Next]_vars

InitRule == RuleInit /\ CloudInit /\ VehInit /\ SyncIdle /\ MoreIdle
SpecRule == InitRule /\ [][RuleNext]_vars

InitVehicle == RuleIdle /\ CloudInit /\ VehInit /\ SyncIdle /\ MoreIdle
SpecVehicle == InitVehicle /\ [][VehNext]_vars

InitSync == RuleIdle /\ CloudInit /\ VehInit /\ SyncInit /\ MoreIdle
SpecSync == InitSync /\ [][SyncNext]_vars

InitConnect ==
    /\ RuleIdle /\ CloudInit /\ VehInit /\ SyncIdle
    /\ ConnInit /\ PairIdle /\ PredIdle /\ IdIdle /\ LateIdle
SpecConnect == InitConnect /\ [][ConnNext]_vars

InitPair ==
    /\ PairInit /\ CloudInit /\ VehInit /\ SyncIdle
    /\ ConnIdle /\ PredIdle /\ IdIdle /\ LateIdle
SpecPair == InitPair /\ [][PairNext]_vars

InitPredict ==
    /\ RuleIdle /\ CloudInit /\ VehInit /\ SyncIdle
    /\ ConnIdle /\ PairIdle /\ PredInit /\ IdIdle /\ LateIdle
SpecPredict == InitPredict /\ [][PredNext]_vars

InitIdentity ==
    /\ RuleIdle /\ CloudInit /\ VehInit /\ SyncIdle
    /\ ConnIdle /\ PairIdle /\ PredIdle /\ IdInit /\ LateIdle
SpecIdentity == InitIdentity /\ [][IdNext]_vars

InitSessions ==
    /\ RuleIdle /\ CloudInit /\ VehInit /\ SyncIdle
    /\ ConnIdle /\ PairIdle /\ PredIdle /\ SessInit /\ ReadIdle /\ QualIdle
    /\ PaceIdle
SpecSessions == InitSessions /\ [][SessNext]_vars

InitRead ==
    /\ RuleIdle /\ CloudInit /\ VehInit /\ SyncIdle
    /\ ConnIdle /\ PairIdle /\ PredIdle /\ IdIdle /\ SessIdle /\ ReadInit /\ QualIdle
    /\ PaceIdle
SpecRead == InitRead /\ [][ReadNext]_vars

InitQuality ==
    /\ RuleIdle /\ CloudInit /\ VehInit /\ SyncIdle
    /\ ConnIdle /\ PairIdle /\ PredIdle /\ IdIdle /\ SessIdle /\ ReadIdle /\ QualInit
    /\ PaceIdle
SpecQuality == InitQuality /\ [][QualNext]_vars

InitPace ==
    /\ RuleIdle /\ CloudInit /\ VehInit /\ SyncIdle
    /\ ConnIdle /\ PairIdle /\ PredIdle /\ IdIdle /\ SessIdle /\ ReadIdle /\ QualIdle
    /\ PaceInit
SpecPace == InitPace /\ [][PaceNext]_vars

(***************************************************************************)
(* The claims.                                                             *)
(***************************************************************************)
\* the value of a field that is present in the reading
Has(k) == k \in DOMAIN data

\* C1: a labelled reading with coolant_temp > 110, control_module_voltage < 11,
\* dtc_count > 10, catalyst_temp_b1s1 > 900 or engine_load > 95 is CRITICAL (3) with
\* stress_score 15, whatever the other fields are.
C1_HardCriticalShortCircuit ==
    ( /\ label # <<>>
      /\ \/ Has("coolant_temp") /\ data["coolant_temp"] > 110
         \/ Has("control_module_voltage") /\ data["control_module_voltage"] < 110
         \/ Has("dtc_count") /\ data["dtc_count"] > 10
         \/ Has("catalyst_temp_b1s1") /\ data["catalyst_temp_b1s1"] > 900
         \/ Has("engine_load") /\ data["engine_load"] > 950 )
    => label = <<3, 15>>

\* a reading labelled CRITICAL on engine_load alone, whose weighted sum stays below WARNING
C1_Witness ==
    /\ label = <<3, 15>>
    /\ Has("engine_load") /\ data["engine_load"] > 950
    /\ ~(Has("coolant_temp") /\ data["coolant_temp"] > 110)
    /\ StressScore(data) < 6

\* C2: no call of read_obd_data begins after stop_collection cleared the running flag.
C2_NoReadAfterStop == ~hist.readAfterStop

\* the collector has stopped: stop_collection returned and the collection thread ended
Stopped == hist.stopRequested /\ spc = "done" /\ wpc = "done" /\ ~running

\* C3: when the collector has stopped after a stop request, every reading still buffered
\* has been offered to storage and the transport is closed.
C3_StoppedFlushedAndClosed ==
    Stopped => /\ connection # "open"
               /\ \A i \in DOMAIN data_buffer : data_buffer[i].n <= hist.maxOffered

\* C4: stop_collection never flushes or clears the buffer, nor closes the connection,
\* while the collection thread is inside a read / append / flush cycle.
C4_WorkerSoleWriter == ~hist.intruded

C6_BufferBounded == Len(data_buffer) <= maxlen /\ Len(data_batch) <= maxlen

\* C7: when a cycle ends whose append brought the buffer to batch_size, a flush has been
\* attempted that offered the appended reading to storage; while every store call
\* succeeded the buffer holds fewer than batch_size readings at the end of a cycle and a
\* flush of the loop carries exactly batch_size.
C7_FlushAtThreshold ==
    /\ (wpc = "loop" /\ hist.cycleFull) =>
            hist.maxOffered >= session_stats.successful_readings
    /\ (wpc = "loop" /\ hist.allStoresOk) => Len(data_buffer) < batch_size
    /\ (wpc = "store" /\ w_site = "loop" /\ hist.allStoresOk) => Len(w_batch) = batch_size

\* C8: the rows of the sensor_data table, and the readings of every batch handed to
\* store_sensor_data_batch, are in acquisition order.
C8_AcquisitionOrder ==
    /\ \A i \in 1..(Len(sensor_table) - 1) : sensor_table[i] < sensor_table[i + 1]
    /\ \A i \in 1..(Len(w_batch) - 1) : w_batch[i].n < w_batch[i + 1].n
    /\ \A i \in 1..(Len(s_batch) - 1) : s_batch[i].n < s_batch[i + 1].n

C10_HaltsBeyondThreshold ==
    consecutive_errors >= max_consecutive_errors => wpc \in {"exit", "done"} \/ w_site = "final"

\* C11: in every round the candidates are tried in listed order; the routine returns
\* True at the first handshake that succeeds; it runs at most max_attempts rounds and
\* sleeps between two rounds only; it returns False only after max_attempts rounds.
C11_ConnectRounds ==
    /\ \A i \in 1..(Len(cn_log) - 1) :
          \/ cn_log[i].attempt < cn_log[i + 1].attempt
          \/ cn_log[i].attempt = cn_log[i + 1].attempt /\ cn_log[i].idx < cn_log[i + 1].idx
    /\ \A i \in DOMAIN cn_log : cn_log[i].ok <=> (cn_status = "true" /\ i = Len(cn_log))
    /\ cn_attempt <= MaxAttempts(cn_impl)
    /\ cn_status = "running" => cn_sleeps = cn_attempt - 1
    /\ cn_sleeps <= MaxAttempts(cn_impl) - 1
    /\ cn_status = "false" =>
          /\ cn_attempt = MaxAttempts(cn_impl)
          /\ cn_sleeps = MaxAttempts(cn_impl) - 1

\* C12: while start_collection has not succeeded no worker runs and nothing is buffered
\* or stored; a failed start leaves the collector without a connection or without a
\* vehicle id; once the collection thread exists current_vehicle_id is not None and
\* session_id is set; a batch handed to store_sensor_data_batch has a vehicle id.
C12_LoopNeedsVehicleAndSession ==
    /\ wpc \in {"not_started", "start_failed"} =>
          /\ ~running
          /\ data_buffer = <<>> /\ sensor_table = <<>> /\ session_stats.total_readings = 0
    /\ wpc = "start_failed" => (connection = "none" \/ current_vehicle_id = 0)
    /\ wpc \notin {"not_started", "start_failed"} =>
          current_vehicle_id # 0 /\ session_id \in SessionIds
    /\ (wpc = "store" \/ spc = "store") => current_vehicle_id # 0

\* the worker hands a full batch to storage under the vehicle id found at the start
C12_Witness ==
    /\ wpc = "store"
    /\ Len(w_batch) = batch_size
    /\ current_vehicle_id = 1
    /\ session_id = "cloud_1"

\* the elements of a sequence
Range(q) == {q[i] : i \in DOMAIN q}

\* a reading that meets one of the five hard-CRITICAL conditions
HardCondition(d) ==
    \/ "coolant_temp" \in DOMAIN d /\ d["coolant_temp"] > 110
    \/ "control_module_voltage" \in DOMAIN d /\ d["control_module_voltage"] < 110
    \/ "dtc_count" \in DOMAIN d /\ d["dtc_count"] > 10
    \/ "catalyst_temp_b1s1" \in DOMAIN d /\ d["catalyst_temp_b1s1"] > 900
    \/ "engine_load" \in DOMAIN d /\ d["engine_load"] > 950

\* C13: a call of predict made while the model, its scaler or its metadata could not be
\* loaded returns a health classification, not None.
C13_FallsBackToRules ==
    (pr_pc = "done" /\ pr_files # ModelFiles) => pr_result.kind = "result"

C15_ScoreOrdering ==
    ( /\ label # <<>> /\ other_label # <<>>
      /\ ~HardCondition(data) /\ ~HardCondition(other)
      /\ label[2] > other_label[2] )
    => label[1] >= other_label[1]

\* a reading of score 6 next to one of score 5, on the two sides of the WARNING band
C15_Witness ==
    /\ label = <<2, 6>>
    /\ other_label = <<1, 5>>
    /\ ~HardCondition(data) /\ ~HardCondition(other)

\* the value of field k of the reading d, or default when the field is absent
Field(d, k, default) == IF k \in DOMAIN d THEN d[k] ELSE default

\* the sum of the increments of the rule table, in exact arithmetic
TableSum(d) ==
    LET load == Field(d, "engine_load", 0)
        rpm == Field(d, "rpm", 0)
        temp == Field(d, "coolant_temp", 0)
        volt == Field(d, "control_module_voltage", 140)
        short == Abs(Field(d, "short_fuel_trim_1", 0))
        long == Abs(Field(d, "long_fuel_trim_1", 0))
        o2 == Field(d, "o2_b1s1", 45)
        dtc == Field(d, "dtc_count", 0)
    IN  (IF load > 850 THEN 3 ELSE IF load > 700 THEN 2 ELSE IF load > 500 THEN 1 ELSE 0)
      + (IF (rpm > 3500 /\ load < 300) \/ rpm > 4500 THEN 2 ELSE 0)
      + (IF temp > 105 THEN 3 ELSE IF temp > 100 THEN 2 ELSE IF temp > 95 THEN 1 ELSE 0)
      + (IF volt < 120 \/ volt > 150 THEN 2 ELSE IF volt < 130 THEN 1 ELSE 0)
      + (IF short > 20 \/ long > 15 THEN 2 ELSE IF short > 10 \/ long > 8 THEN 1 ELSE 0)
      + (IF Abs(o2 - 45) > 30 THEN 1 ELSE 0)
      + (IF dtc >= 3 THEN 2 ELSE IF dtc >= 1 THEN 1 ELSE 0)
      + (IF Field(d, "mil_status", 0) # 0 THEN 2 ELSE 0)
      + (IF Field(d, "distance_w_mil", 0) > 50 THEN 1 ELSE 0)

\* C16: the stress_score of a labelled reading without a hard-CRITICAL condition is the
\* sum of the increments of the rule table.
C16_ScoreIsTableSum ==
    (label # <<>> /\ ~HardCondition(data)) => label[2] = TableSum(data)

\* C17: (as claimed) the idle reading of the end-to-end scenario is labelled ADVISORY
\* with stress_score 3.
C17_IdleScenarioAdvisory ==
    (label # <<>> /\ data = IdleReading) => label = <<1, 3>>

\* C17 (amended): the idle reading of the end-to-end scenario takes +1 from
\* engine_load > 50, +1 from coolant_temp > 95 and nothing from any other factor; it is
\* labelled NORMAL with stress_score 2.
C17_IdleScenarioNormal ==
    (label # <<>> /\ data = IdleReading) =>
        /\ label = <<0, 2>>
        /\ LoadPoints(data) = 1 /\ TempPoints(data) = 1
        /\ RpmPoints(data) = 0 /\ VoltagePoints(data) = 0 /\ TrimPoints(data) = 0
        /\ O2Points(data) = 0 /\ DtcPoints(data) = 0 /\ MilPoints(data) = 0
        /\ DistancePoints(data) = 0

\* the idle reading, labelled
C17_Witness ==
    /\ label = <<0, 2>>
    /\ DOMAIN data = {"rpm", "coolant_temp", "engine_load", "control_module_voltage",
                      "dtc_count", "mil_status"}
    /\ data["rpm"] = 1028 /\ data["coolant_temp"] = 96 /\ data["engine_load"] = 506
    /\ data["control_module_voltage"] = 141 /\ data["dtc_count"] = 0
    /\ data["mil_status"] = 0

\* C18: a call of engineer_features on a reading with absent or None fields returns the
\* features and raises nothing.
C18_NullSafeFeatures == pr_features.kind # "raised"

\* C19: no reading whose quality score is below the acceptance threshold has been left
\* out of the buffer.
C19_LowQualityKept == ~v_hist.lowQualityDropped

\* C20: all connections of the same vehicle (same supported commands, same protocol, no
\* VIN) generate the same signature and resolve to the same vehicle id, and they have
\* created at most one profile.
C20_StableIdentity ==
    /\ \A i, j \in DOMAIN id_signatures :
          /\ id_signatures[i] = id_signatures[j]
          /\ id_vehicle_ids[i] = id_vehicle_ids[j]
    /\ \A i, j \in DOMAIN id_profiles :
          (id_profiles[i] \in Range(id_signatures) /\ id_profiles[j] \in Range(id_signatures))
              => i = j

\* C28: the session statistics of the cloud collector satisfy
\* stored_records <= successful_readings <= total_readings in every reachable state,
\* and no reading is a row of the sensor_data table more than once.
C28_StatsOrdered ==
    /\ session_stats.stored_records <= session_stats.successful_readings
    /\ session_stats.successful_readings <= session_stats.total_readings
    /\ \A i, j \in DOMAIN sensor_table : sensor_table[i] = sensor_table[j] => i = j

\* C29: every accepted reading is still in the buffer or is a row of the sensor_data
\* table (no reading is evicted here: fewer than maxlen readings are ever accepted).
C29_NoReadingLost ==
    \A n \in 1..session_stats.successful_readings :
        \/ \E i \in DOMAIN data_buffer : data_buffer[i].n = n
        \/ \E j \in DOMAIN sensor_table : sensor_table[j] = n

C21_OneProfilePerVehicle ==
    (\A i, j \in DOMAIN ss_log : ss_log[i].answered = ss_log[j].answered) =>
        /\ \A i, j \in DOMAIN ss_log : ss_log[i].vehicle_id = ss_log[j].vehicle_id
        /\ \A i, j \in DOMAIN ss_log :
              (i < j /\ ss_log[i].vin = "" /\ ss_log[j].vin # "") =>
                  ss_profiles[ss_log[j].vehicle_id].car_identifier = Plain(ss_log[j].vin)

\* C22: of two session starts that resolve to the same profile, the later one leaves the
\* profile with a greater session counter and a later last_used.
C22_SessionsCounted ==
    \A i, j \in DOMAIN ss_log :
        (i < j /\ ss_log[i].vehicle_id = ss_log[j].vehicle_id) =>
            /\ ss_log[j].total_sessions > ss_log[i].total_sessions
            /\ ss_log[j].last_used > ss_log[i].last_used

\* C23: the temp_gradient of a reading is non-null exactly when the previous call read a
\* coolant temperature, this call read one, and the time elapsed between them is
\* positive; in every other case it is null.
C23_GradientDefined ==
    rd_count >= 1 =>
        (~rd_reading.temp_gradient.null
            <=> /\ rd_hist.prevTempRead
                /\ rd_reading.responses["coolant_temp"].kind = "value"
                /\ rd_hist.elapsed > 0)

\* C24: the fuel_efficiency of a reading is null when the speed read is 0 or less or when
\* the MAF command is unsupported, raised or answered null.
C24_FuelEfficiencyNull ==
    (/\ rd_count >= 1
     /\ \/ rd_reading.responses["maf"].kind # "value"
        \/ rd_reading.responses["speed"].kind # "value"
        \/ rd_reading.responses["speed"].value <= 0)
        => rd_reading.fuel_efficiency.null

\* the dict d without the keys of S
Without(d, S) == [x \in DOMAIN d \ S |-> d[x]]

\* C27: a reading whose control_module_voltage or o2_b1s1 command is unsupported or
\* raised is labelled as the same reading without that field is.
C27_MissingIsNeutral ==
    rd_count >= 1 =>
        rd_reading.label =
            AutoLabelHealth(Without(rd_reading.data,
                {p \in {"control_module_voltage", "o2_b1s1"} :
                    rd_reading.responses[p].kind \in {"unsupported", "raised"}}))

\* the largest score: 100 for the cloud collector, 100 in units of 1 / (10 * ScoreUnit)
\* for the local collector
ScoreLimit == IF q_impl = "cloud" THEN 100 ELSE 100 * 10 * ScoreUnit

\* C25: of two readings of equal read duration, the one whose set of parameters read is
\* a strict subset of the other's has the strictly lower quality score; every score
\* lies in 0..100.
C25_QualityStrict ==
    q_scores # <<>> =>
        /\ (Read(q_first) \subseteq Read(q_second) /\ Read(q_first) # Read(q_second))
                => q_scores[1] < q_scores[2]
        /\ \A i \in 1..2 : q_scores[i] >= 0 /\ q_scores[i] <= ScoreLimit

\* C26: the sleep that ends a poll cycle which did not raise is max(0, interval - elapsed),
\* elapsed being the duration of that cycle: never negative, 0 when the cycle took the
\* interval or longer, and otherwise the rest of the interval.
C26_SleepFillsInterval ==
    \A i \in DOMAIN pc_log :
        pc_log[i].outcome # "raised" =>
            /\ pc_log[i].sleep >= 0
            /\ (pc_log[i].elapsed >= collection_interval => pc_log[i].sleep = 0)
            /\ (pc_log[i].elapsed < collection_interval =>
                    pc_log[i].elapsed + pc_log[i].sleep = collection_interval)

====
